---- MODULE Spec2Model ----
(***************************************************************************)
(* Model of Piano.py: the note synthesizer generate_piano_note, the note   *)
(* table NOTE_FREQUENCIES, the click handler play_note and the Streamlit   *)
(* script run around them.                                                 *)
(*                                                                         *)
(* Units.  Frequencies are integers in hundredths of a hertz (261.63 Hz is *)
(* 26163).  Durations are integers in halves of a second (the default 0.5  *)
(* is 1).  Sines, the envelope and raw waveform samples are fixed-point    *)
(* numbers with four decimal places.  The two floating-point operations of *)
(* the normalisation, note * 32767 and / peak, round to nearest-even with  *)
(* MantBits significant bits, as IEEE-754 does with 53.                    *)
(***************************************************************************)
EXTENDS Integers, Sequences, FiniteSets, TLC

VARIABLES
  note_frequencies,  \* the module-level dict NOTE_FREQUENCIES
  session_state,     \* st.session_state: a dict that may hold "last_note"
  run,               \* <<>> or <<r>>: what the last UI handler did
  pending,           \* <<>> or <<args>>: a generate_piano_note call in progress
  ret,               \* <<>> or <<[args, result]>>: the last direct call
  ncalls,            \* number of direct calls completed
  nan_to_int16       \* what astype(np.int16) makes of NaN on this build

vars == <<note_frequencies, session_state, run, pending, ret, ncalls, nan_to_int16>>

---------------------------------------------------------------------------
(* Bounds of the model *)

MaxFreqSteps == 1
MaxDurHalves == 4
MaxSampleRate == 4
MaxCalls == 2
MantBits == 16

---------------------------------------------------------------------------
(* Arithmetic *)

Abs(x) == IF x < 0 THEN -x ELSE x

\* Python's int(): truncation toward zero of num/den, den > 0
Trunc(num, den) == IF num >= 0 THEN num \div den ELSE -((-num) \div den)

FreqDen == 100
DurDen == 2
FixScale == 10000
HalfTurn == 1800
Int16Max == 32767

\* np.sin on [0, pi], the angle in tenths of a degree: Bhaskara's rational
\* approximation 4x(180-x) / (40500 - x(180-x)), to four decimal places
SinHalf(x) ==
  LET p == x * (HalfTurn - x)
      num == 4 * p
      den == ((5 * HalfTurn * HalfTurn) \div 4) - p
      q1 == (num * 100) \div den
      r1 == (num * 100) % den
  IN (q1 * 100) + ((r1 * 100) \div den)

\* np.sin of an angle in tenths of a degree
Sin(a) ==
  LET m == a % (2 * HalfTurn)
  IN IF m <= HalfTurn THEN SinHalf(m) ELSE -SinHalf(m - HalfTurn)

\* the angle 2*pi*k*frequency*t[i] in tenths of a degree, where
\* t[i] = i * duration / n (np.linspace without its endpoint)
Angle(k, frequency, i, dur, n) ==
  LET b == FreqDen * DurDen * n
      a0 == ((frequency % b) * i) % b
      a == (a0 * k * dur) % b
      q1 == (a * 360) \div b
      r1 == (a * 360) % b
  IN (q1 * 10) + ((r1 * 10) \div b)

RECURSIVE ExpSeries(_, _, _)
\* the series of exp(x), x >= 0 in units of 1/FixScale, from term k on
ExpSeries(x, k, term) ==
  IF term = 0 THEN 0
  ELSE term + ExpSeries(x, k + 1, (term * x) \div (FixScale * (k + 1)))

\* one sample of the decay envelope as the source computes it
EnvelopeDecay(i, n) ==
  LET x == (3 * i * FixScale) \div n
  IN (FixScale * FixScale) \div ExpSeries(x, 0, FixScale)

\* a flawed envelope that does not decay
EnvelopeFlat(i, n) == FixScale

\* envelope[i] = exp(-3 * t[i] / duration) = exp(-3 * i / n)
Envelope(i, n) == EnvelopeDecay(i, n)

\* the four sinusoids of sample i with their weights 0.7, 0.3, 0.2, 0.1,
\* in units of 1/(10*FixScale)
Harmonics(frequency, i, dur, n) ==
    (7 * Sin(Angle(1, frequency, i, dur, n)))
  + (3 * Sin(Angle(2, frequency, i, dur, n)))
  + (2 * Sin(Angle(3, frequency, i, dur, n)))
  + (1 * Sin(Angle(4, frequency, i, dur, n)))

\* note[i] after the envelope
RawSampleOf(frequency, i, dur, n) ==
  LET p == Harmonics(frequency, i, dur, n) * Envelope(i, n)
  IN Trunc(p, 10 * FixScale)

\* a flawed synthesizer that takes its pitch from the session when it can
RawSampleLeaky(frequency, i, dur, n) ==
  IF "last_note" \in DOMAIN session_state
     /\ session_state["last_note"] \in DOMAIN note_frequencies
  THEN RawSampleOf(note_frequencies[session_state["last_note"]], i, dur, n)
  ELSE RawSampleOf(frequency, i, dur, n)

RawSample(frequency, i, dur, n) == RawSampleOf(frequency, i, dur, n)

\* the array note, 1-based
RawNote(frequency, dur, n) == [i \in 1..n |-> RawSample(frequency, i - 1, dur, n)]

RECURSIVE MaxAbs(_, _, _)
\* np.max(np.abs(note)) over note[lo..hi]
MaxAbs(note, lo, hi) ==
  IF lo = hi THEN Abs(note[lo])
  ELSE LET mid == (lo + hi) \div 2
           l == MaxAbs(note, lo, mid)
           r == MaxAbs(note, mid + 1, hi)
       IN IF l >= r THEN l ELSE r

RECURSIVE BitLen(_)
BitLen(v) == IF v = 0 THEN 0 ELSE 1 + BitLen(v \div 2)

\* round v >= 0 to MantBits significant bits, ties to even
RoundSig(v) ==
  LET s == BitLen(v) - MantBits
  IN IF s <= 0 THEN v
     ELSE LET q == v \div (2 ^ s)
              r == v % (2 ^ s)
              half == 2 ^ (s - 1)
              up == r > half \/ (r = half /\ q % 2 = 1)
          IN (IF up THEN q + 1 ELSE q) * (2 ^ s)

\* the floating-point product a * b of two non-negative values
FMul(a, b) == RoundSig(a * b)

\* the integer part of the floating-point quotient p / d, d > 0: the
\* quotient has f = MantBits - BitLen(p \div d) fraction bits, and rounds up
\* to the next integer when its fraction is at least 1 - 2^-(f+1)
FDivTrunc(p, d) ==
  LET q0 == p \div d
      r0 == p % d
      f == MantBits - BitLen(q0)
  IN IF f < 1 THEN RoundSig(q0)
     ELSE IF (d - r0) <= (d \div (2 ^ (f + 1))) THEN q0 + 1 ELSE q0

\* ndarray.astype(np.int16) of a finite value already truncated to an integer
ToInt16(v) == ((v + 32768) % 65536) - 32768

\* audio[i] = (note[i] * (2**15 - 1) / peak).astype(np.int16), peak > 0
Scale(x, peak) ==
  LET m == FDivTrunc(FMul(Abs(x), Int16Max), peak)
  IN ToInt16(IF x < 0 THEN -m ELSE m)

---------------------------------------------------------------------------
(* generate_piano_note *)

Args(f, d, sr) == [frequency |-> f, duration |-> d, sample_rate |-> sr]

\* int(sample_rate * duration)
NumSamples(duration, sample_rate) == Trunc(sample_rate * duration, DurDen)

\* how a call ends: np.linspace refuses a negative count (line 28), np.max
\* refuses an empty array (line 43), the WAV header cannot hold a negative
\* rate (line 48); otherwise the call returns (line 53)
CallStatus(duration, sample_rate) ==
  LET n == NumSamples(duration, sample_rate)
  IN IF n < 0 THEN [status |-> "ValueError", line |-> 28]
     ELSE IF n = 0 THEN [status |-> "ValueError", line |-> 43]
     ELSE IF sample_rate < 0 THEN [status |-> "struct.error", line |-> 48]
     ELSE [status |-> "ok", line |-> 53]

\* lines 43-44: with a zero peak every quotient is 0/0 = NaN (numpy warns
\* and goes on), and the cast of NaN is whatever the build makes of it
Normalize(note, n, peak) ==
  IF peak = 0 THEN [i \in 1..n |-> nan_to_int16]
  ELSE [i \in 1..n |-> Scale(note[i], peak)]

\* the returned base64 WAV, as the rate and the samples it encodes
generate_piano_note(frequency, duration, sample_rate) ==
  LET st == CallStatus(duration, sample_rate)
      n == NumSamples(duration, sample_rate)
  IN IF st.status # "ok"
     THEN [status |-> st.status, line |-> st.line, rate |-> 0,
           samples |-> <<>>, nan |-> FALSE]
     ELSE LET note == RawNote(frequency, duration, n)
              peak == MaxAbs(note, 1, n)
          IN [status |-> "ok", line |-> st.line, rate |-> sample_rate,
              samples |-> Normalize(note, n, peak), nan |-> peak = 0]

---------------------------------------------------------------------------
(* The note table and play_note *)

NOTE_FREQUENCIES ==
  ("C" :> 26163) @@ ("D" :> 29366) @@ ("E" :> 32963) @@ ("F" :> 34923)
  @@ ("G" :> 39200) @@ ("A" :> 44000) @@ ("B" :> 49388)

\* the keys of the white-key loop, in order
KeyOrder == <<"C", "D", "E", "F", "G", "A", "B">>

DefaultDuration == 1
DefaultSampleRate == 44100

None == "None"
NoClick == "NoClick"

Ev(e, note, frequency) == [ev |-> e, note |-> note, frequency |-> frequency]

\* a flawed lookup that falls back to A4 for an unknown note
LookupDefault(table, note) ==
  IF note \in DOMAIN table THEN <<table[note]>> ELSE <<44000>>

\* NOTE_FREQUENCIES[note]: <<frequency>>, or <<>> for KeyError
Lookup(table, note) ==
  IF note \in DOMAIN table THEN <<table[note]>> ELSE <<>>

\* a flawed play_note that emits the audio element before synthesizing
PlayNoteEager(table, note) ==
  LET found == Lookup(table, note)
  IN IF found = <<>> THEN [events |-> <<>>, error |-> "KeyError"]
     ELSE [events |-> <<Ev("lookup", note, found[1]), Ev("audio", note, found[1]),
                        Ev("call", note, found[1]), Ev("return", note, found[1])>>,
           error |-> "none"]

\* what play_note does after line 85: the lookup (86), the synthesis call
\* and its return (87), the audio element (93)
PlayNoteTrace(table, note) ==
  LET found == Lookup(table, note)
  IN IF found = <<>> THEN [events |-> <<>>, error |-> "KeyError"]
     ELSE LET st == CallStatus(DefaultDuration, DefaultSampleRate)
          IN IF st.status # "ok"
             THEN [events |-> <<Ev("lookup", note, found[1]), Ev("call", note, found[1])>>,
                   error |-> st.status]
             ELSE [events |-> <<Ev("lookup", note, found[1]), Ev("call", note, found[1]),
                                Ev("return", note, found[1]), Ev("audio", note, found[1])>>,
                   error |-> "none"]

\* the "Currently Playing" panel, lines 142-147
Panel(table, ln) ==
  IF ln = None THEN [text |-> "No note is currently playing", note |-> ln, frequency |-> 0]
  ELSE IF ln \in DOMAIN table THEN [text |-> "Note", note |-> ln, frequency |-> table[ln]]
  ELSE [text |-> "KeyError", note |-> ln, frequency |-> 0]

---------------------------------------------------------------------------
(* Inputs *)

Frequencies == {70 * h : h \in (-1)..MaxFreqSteps}
Durations == (-2)..MaxDurHalves
SampleRates == (-2)..MaxSampleRate
Inputs == {Args(f, d, sr) : f \in Frequencies, d \in Durations, sr \in SampleRates}

\* the calls the keyboard makes: generate_piano_note(frequency) with the defaults
KeyCalls == {Args(NOTE_FREQUENCIES[k], DefaultDuration, DefaultSampleRate) :
               k \in DOMAIN NOTE_FREQUENCIES}

UnknownNotes == {"H"}
Clicks == {KeyOrder[i] : i \in DOMAIN KeyOrder} \cup {NoClick}
NoteArgs == {KeyOrder[i] : i \in DOMAIN KeyOrder} \cup UnknownNotes

EmptyDict == [k \in {} |-> None]

---------------------------------------------------------------------------
(* The state machine *)

InitCommon ==
  /\ note_frequencies = NOTE_FREQUENCIES
  /\ session_state = EmptyDict
  /\ run = <<>>
  /\ ret = <<>>
  /\ ncalls = 0
  /\ nan_to_int16 \in {0, -32768}

Init ==
  /\ InitCommon
  /\ pending \in {<<a>> : a \in Inputs}

InitKeys ==
  /\ InitCommon
  /\ pending \in {<<a>> : a \in KeyCalls}

\* a flawed synthesizer that clears the session's note
SynthesizeClobber ==
  /\ pending # <<>>
  /\ LET a == pending[1]
     IN ret' = <<[args |-> a,
                  result |-> generate_piano_note(a.frequency, a.duration, a.sample_rate)]>>
  /\ pending' = <<>>
  /\ ncalls' = ncalls + 1
  /\ session_state' = [last_note |-> None]
  /\ UNCHANGED <<note_frequencies, run, nan_to_int16>>

\* the call in progress runs to its end
Synthesize ==
  /\ pending # <<>>
  /\ LET a == pending[1]
     IN ret' = <<[args |-> a,
                  result |-> generate_piano_note(a.frequency, a.duration, a.sample_rate)]>>
  /\ pending' = <<>>
  /\ ncalls' = ncalls + 1
  /\ UNCHANGED <<note_frequencies, session_state, run, nan_to_int16>>

\* the caller makes the same call again
Repeat ==
  /\ pending = <<>>
  /\ ret # <<>>
  /\ ncalls < MaxCalls
  /\ pending' = <<ret[1].args>>
  /\ UNCHANGED <<note_frequencies, session_state, run, ret, ncalls, nan_to_int16>>

\* play_note(note), called directly
PlayNote(note) ==
  /\ pending = <<>>
  /\ LET tr == PlayNoteTrace(note_frequencies, note)
     IN run' = <<[op |-> "play_note", arg |-> note, events |-> tr.events,
                  error |-> tr.error, panel |-> <<>>]>>
  /\ session_state' = [last_note |-> note]
  /\ UNCHANGED <<note_frequencies, pending, ret, ncalls, nan_to_int16>>

\* one run of the script; click is the button that triggered it, if any
ScriptRun(click) ==
  /\ pending = <<>>
  /\ LET ln0 == IF "last_note" \in DOMAIN session_state
                THEN session_state["last_note"] ELSE None
         pressed == click # NoClick
         tr == IF pressed THEN PlayNoteTrace(note_frequencies, click)
               ELSE [events |-> <<>>, error |-> "none"]
         ln1 == IF pressed THEN click ELSE ln0
         panel == Panel(note_frequencies, ln1)
     IN /\ session_state' = [last_note |-> ln1]
        /\ run' = <<[op |-> "script", arg |-> click, events |-> tr.events,
                     error |-> IF tr.error # "none" THEN tr.error
                               ELSE IF panel.text = "KeyError" THEN "KeyError"
                               ELSE "none",
                     panel |-> IF tr.error # "none" THEN <<>> ELSE <<panel>>]>>
  /\ UNCHANGED <<note_frequencies, pending, ret, ncalls, nan_to_int16>>

Next ==
  \/ Synthesize
  \/ Repeat
  \/ \E note \in NoteArgs : PlayNote(note)
  \/ \E click \in Clicks : ScriptRun(click)

NextKeys ==
  \/ Synthesize
  \/ \E note \in NoteArgs : PlayNote(note)
  \/ \E click \in Clicks : ScriptRun(click)

Spec == Init /\ [][Next]_vars

SpecKeys == InitKeys /\ [][NextKeys]_vars

---------------------------------------------------------------------------
(* Properties of generate_piano_note *)

Returned == ret # <<>> /\ ret[1].result.status = "ok"

ValidArgs(a) == a.frequency > 0 /\ a.duration > 0 /\ a.sample_rate > 0

\* C1: for every frequency > 0, duration > 0 and sampleRate > 0 the call
\* returns exactly floor(duration * sampleRate) samples, each within
\* [-32767, 32767].
C1_LengthAndRange ==
  (ret # <<>> /\ ValidArgs(ret[1].args)) =>
    LET a == ret[1].args
        r == ret[1].result
    IN /\ r.status = "ok"
       /\ Len(r.samples) = (a.sample_rate * a.duration) \div DurDen
       /\ \A i \in 1..Len(r.samples) :
            r.samples[i] >= -Int16Max /\ r.samples[i] <= Int16Max

\* C2: when sampleRate * duration < 1 the call returns an empty buffer and
\* raises no fault, and no returned buffer comes from dividing by the peak
\* of an empty or all-zero waveform.
C2_EmptyBuffer ==
  ret # <<>> =>
    LET a == ret[1].args
        r == ret[1].result
    IN /\ (a.duration > 0 /\ a.sample_rate > 0
           /\ a.sample_rate * a.duration < DurDen)
          => (r.status = "ok" /\ r.samples = <<>>)
       /\ ~r.nan

\* C3: whenever frequency, duration or sampleRate is <= 0 the call fails
\* explicitly and returns no audio.
C3_InvalidRejected ==
  (ret # <<>> /\ ~ValidArgs(ret[1].args)) => ret[1].result.status # "ok"

\* C5: whenever the raw waveform is not identically zero, the largest
\* absolute sample of the returned buffer is exactly 32767.
C5_PeakIsMax ==
  (Returned /\ ~ret[1].result.nan) =>
    LET r == ret[1].result
    IN MaxAbs(r.samples, 1, Len(r.samples)) = Int16Max

\* the call synthesize(440.0, 0.5, 44100), which is also the A key's call
ScenarioArgs == Args(44000, DefaultDuration, DefaultSampleRate)

ScenarioReturned == Returned /\ ret[1].args = ScenarioArgs

\* C6 as stated: in the buffer of synthesize(440.0, 0.5, 44100) the sample at
\* index 0 has magnitude close to the peak (at least half of it), and the
\* sample at index 22049 has magnitude under 6% of the peak.
C6_OnsetNearPeak ==
  ScenarioReturned =>
    LET s == ret[1].result.samples
        peak == MaxAbs(s, 1, Len(s))
    IN /\ 2 * Abs(s[1]) >= peak
       /\ 100 * Abs(s[Len(s)]) < 6 * peak

\* C6 amended: the buffer has 22050 samples; the sample at index 0 is 0, the
\* peak is reached within the first fundamental period (index 100 at most),
\* and the samples at indices 21950..22049 all have magnitude under 6% of
\* the peak.
C6_SilentOnsetDecayedTail ==
  ScenarioReturned =>
    LET s == ret[1].result.samples
        peak == MaxAbs(s, 1, Len(s))
    IN /\ Len(s) = 22050
       /\ s[1] = 0
       /\ \E i \in 1..101 : Abs(s[i]) = peak
       /\ \A i \in 21951..22050 : 100 * Abs(s[i]) < 6 * peak

C6_Witness ==
  /\ ScenarioReturned
  /\ Len(ret[1].result.samples) = 22050
  /\ ret[1].result.samples[22050] # 0

\* C7: the note table keeps its seven initial entries through every step,
\* and a step in which a direct synthesis call completes leaves the session
\* state as it was.
C7_SynthesisFrame ==
  [][/\ note_frequencies' = NOTE_FREQUENCIES
     /\ (ncalls' # ncalls => session_state' = session_state)]_vars

C7_Witness ==
  /\ ncalls >= 2
  /\ Returned
  /\ "last_note" \in DOMAIN session_state
  /\ session_state["last_note"] = "A"

---------------------------------------------------------------------------
(* Properties of the lookup, play_note and the script run *)

\* the table of the specification, section 4.2
SpecFrequencies ==
  [n \in {"C", "D", "E", "F", "G", "A", "B"} |->
     CASE n = "C" -> 26163 [] n = "D" -> 29366 [] n = "E" -> 32963
       [] n = "F" -> 34923 [] n = "G" -> 39200 [] n = "A" -> 44000
       [] n = "B" -> 49388]

EventsOf(e, kind) == {j \in DOMAIN e : e[j].ev = kind}

\* C4: looking up one of the seven notes yields its table frequency, which
\* is the frequency of everything that follows; looking up any other
\* identifier fails with KeyError, yields no frequency, and no synthesis or
\* playback follows.
C4_Lookup ==
  (run # <<>> /\ run[1].arg # NoClick) =>
    LET r == run[1]
    IN IF r.arg \in DOMAIN SpecFrequencies
       THEN /\ r.events # <<>>
            /\ r.events[1] = Ev("lookup", r.arg, SpecFrequencies[r.arg])
            /\ \A j \in DOMAIN r.events :
                 r.events[j].frequency = SpecFrequencies[r.arg]
       ELSE /\ r.error = "KeyError"
            /\ r.events = <<>>

C4_Witness ==
  /\ run # <<>>
  /\ run[1].arg = "H"
  /\ run[1].error = "KeyError"

\* C9: a handler with a key activation makes exactly one synthesis call, a
\* handler without one makes none; at most one audio element is emitted, and
\* only right after the return of the synthesis call for the pressed key's
\* frequency.
C9_SynthesisBeforePlayback ==
  run # <<>> =>
    LET r == run[1]
        e == r.events
        known == r.arg \in DOMAIN note_frequencies
    IN /\ Cardinality(EventsOf(e, "call")) = (IF known THEN 1 ELSE 0)
       /\ Cardinality(EventsOf(e, "audio")) <= 1
       /\ \A j \in EventsOf(e, "audio") :
            /\ j >= 3
            /\ e[j - 2] = Ev("call", r.arg, note_frequencies[r.arg])
            /\ e[j - 1] = Ev("return", r.arg, note_frequencies[r.arg])
            /\ e[j].frequency = note_frequencies[r.arg]

C9_Witness ==
  /\ run # <<>>
  /\ run[1].op = "script"
  /\ run[1].arg = "G"
  /\ EventsOf(run[1].events, "audio") # {}

\* C10: after any sequence of play_note calls, failed ones included, the
\* session's last_note is None or a key of the table, and the "Currently
\* Playing" panel of a script run never fails.
C10_LastNoteValid ==
  /\ "last_note" \in DOMAIN session_state
       => session_state["last_note"] \in ({None} \cup DOMAIN note_frequencies)
  /\ (run # <<>> /\ run[1].op = "script") => run[1].error # "KeyError"

====
